---- MODULE Spec2Model ----
(***************************************************************************)
(* A model of the one-time image migration script (src/unnamed/part_001):  *)
(* extraction of image references from the article records, the bounded-   *)
(* concurrency download scheduler, the per-reference download with its     *)
(* timer and redirects, and the rewriting and serialisation of the         *)
(* records.                                                                *)
(*                                                                         *)
(* A text is a sequence of one-character strings.  The JavaScript event    *)
(* loop is modelled by one action per callback: everything a callback does *)
(* synchronously is one step.                                              *)
(***************************************************************************)
EXTENDS Integers, Sequences, FiniteSets, TLC

(***************************************************************************)
(* Bounds of the model.                                                    *)
(***************************************************************************)
\* the `concurrency` argument of downloadAllImages (the script passes 15)
Concurrency == 2

(***************************************************************************)
(* Texts.                                                                  *)
(***************************************************************************)
Range(s) == {s[i] : i \in 1..Len(s)}

\* Op applied to the value of v: v is computed once, whatever Op does with it
Bind(v, Op(_)) == CHOOSE r \in {Op(x) : x \in {v}} : TRUE

Bind2(v, w, Op(_, _)) == CHOOSE r \in {Op(x, y) : x \in {v}, y \in {w}} : TRUE

Min(S) == Bind(S, LAMBDA T : CHOOSE x \in T : \A y \in T : x <= y)

Max(S) == Bind(S, LAMBDA T : CHOOSE x \in T : \A y \in T : x >= y)

\* s.startsWith(p, i): p occurs in s at index i (1-based)
OccursAt(s, p, i) ==
    /\ i >= 1
    /\ i + Len(p) - 1 <= Len(s)
    /\ \A k \in 1..Len(p) : s[i + k - 1] = p[k]

\* s.includes(p)
Includes(s, p) == \E i \in 1..(Len(s) + 1) : OccursAt(s, p, i)

\* the characters the class \s and String.prototype.trim treat as white space
WhiteSpace == {" ", "\n", "\t", "\r"}

\* String.prototype.trim
Trim(s) ==
    LET keep == {i \in 1..Len(s) : s[i] \notin WhiteSpace}
    IN  IF keep = {} THEN <<>>
        ELSE SubSeq(s, Min(keep), Max(keep))

\* the lower-case form of a character, as the regular expression flag `i` compares
ToLower(c) ==
    CASE c = "I" -> "i" [] c = "M" -> "m" [] c = "G" -> "g"
      [] c = "S" -> "s" [] c = "R" -> "r" [] c = "C" -> "c"
      [] OTHER -> c

OccursAtNoCase(s, p, i) ==
    /\ i >= 1
    /\ i + Len(p) - 1 <= Len(s)
    /\ \A k \in 1..Len(p) : ToLower(s[i + k - 1]) = p[k]

\* the last index e >= p - 1 such that no character of s[p..e] is in stop:
\* the end of the longest match of [^stop]* at p
RunEnd(s, p, stop) ==
    LET bad == {i \in p..Len(s) : s[i] \in stop}
    IN  IF bad = {} THEN Len(s)
        ELSE Min(bad) - 1

\* SetAdd on an array instead of a Set: no deduplication
SetAddNoDedup(set, x) == Append(set, x)

\* Set.prototype.add on an insertion-ordered Set kept as a sequence
SetAdd(set, x) == IF x \in Range(set) THEN set ELSE Append(set, x)

RECURSIVE SetAddAll(_, _)
SetAddAll(set, xs) ==
    Bind2(set, xs, LAMBDA t, v :
            IF v = <<>> THEN t ELSE SetAddAll(SetAdd(t, Head(v)), Tail(v)))

(***************************************************************************)
(* extractImageUrls: the three regular expressions, each applied with      *)
(* exec() in a loop (flag g: the next search starts after the last match). *)
(***************************************************************************)
NoMatch == [ok |-> FALSE, group |-> <<>>, end |-> 0]

\* /<img[^>]+src=["']([^"']+)["']/gi matched at index i.  [^>]+ is greedy:
\* the longest prefix is tried first, then shorter ones.
ImgMatchAt(s, i) ==
    IF ~OccursAtNoCase(s, <<"<", "i", "m", "g">>, i) THEN NoMatch
    ELSE
      LET p    == i + 4
          last == RunEnd(s, p, {">"})
          Ok(e) == /\ OccursAtNoCase(s, <<"s", "r", "c", "=">>, e + 1)
                   /\ e + 5 <= Len(s)
                   /\ s[e + 5] \in {"\"", "'"}
                   /\ LET g == RunEnd(s, e + 6, {"\"", "'"})
                      IN  g >= e + 6 /\ g + 1 <= Len(s)
          es   == {e \in p..last : Ok(e)}
      IN  IF es = {} THEN NoMatch
          ELSE LET e == Max(es)
                   g == RunEnd(s, e + 6, {"\"", "'"})
               IN  [ok |-> TRUE, group |-> SubSeq(s, e + 6, g), end |-> g + 1]

\* /!\[([^\]]*)\]\(([^)]+)\)/g matched at index i
MdMatchAt(s, i) ==
    IF ~OccursAt(s, <<"!", "[">>, i) THEN NoMatch
    ELSE
      LET q == RunEnd(s, i + 2, {"]"}) + 1
          g == RunEnd(s, q + 2, {")"})
      IN  IF /\ OccursAt(s, <<"]", "(">>, q)
             /\ g >= q + 2
             /\ g + 1 <= Len(s)
          THEN [ok |-> TRUE, group |-> SubSeq(s, q + 2, g), end |-> g + 1]
          ELSE NoMatch

\* the third expression left out: it never matches
MalformedMatchAtNever(s, i) == NoMatch

\* /!\[([^\(]*)\((https?:\/\/[^\s)]+)\)/g matched at index i
MalformedMatchAt(s, i) ==
    IF ~OccursAt(s, <<"!", "[">>, i) THEN NoMatch
    ELSE
      LET q == RunEnd(s, i + 2, {"("}) + 1
          u == q + 1
          h == IF OccursAt(s, <<"h", "t", "t", "p", "s", ":", "/", "/">>, u) THEN u + 8
               ELSE IF OccursAt(s, <<"h", "t", "t", "p", ":", "/", "/">>, u) THEN u + 7
               ELSE 0
          g == RunEnd(s, h, WhiteSpace \cup {")"})
      IN  IF /\ OccursAt(s, <<"(">>, q)
             /\ h > 0
             /\ g >= h
             /\ g + 1 <= Len(s)
          THEN [ok |-> TRUE, group |-> SubSeq(s, u, g), end |-> g + 1]
          ELSE NoMatch

\* the groups of the successive matches of one expression, in match order
ImgMatches(s) ==
    LET F[from \in 1..(Len(s) + 1)] ==
          Bind({i \in from..Len(s) : ImgMatchAt(s, i).ok}, LAMBDA hits :
                 IF hits = {} THEN <<>>
                 ELSE Bind(ImgMatchAt(s, Min(hits)), LAMBDA m :
                             <<m.group>> \o F[m.end + 1]))
    IN  F[1]

MdMatches(s) ==
    LET F[from \in 1..(Len(s) + 1)] ==
          Bind({i \in from..Len(s) : MdMatchAt(s, i).ok}, LAMBDA hits :
                 IF hits = {} THEN <<>>
                 ELSE Bind(MdMatchAt(s, Min(hits)), LAMBDA m :
                             <<m.group>> \o F[m.end + 1]))
    IN  F[1]

MalformedMatches(s) ==
    LET F[from \in 1..(Len(s) + 1)] ==
          Bind({i \in from..Len(s) : MalformedMatchAt(s, i).ok}, LAMBDA hits :
                 IF hits = {} THEN <<>>
                 ELSE Bind(MalformedMatchAt(s, Min(hits)), LAMBDA m :
                             <<m.group>> \o F[m.end + 1]))
    IN  F[1]

\* Array.from(urls): the distinct groups in insertion order
extractImageUrls(content) ==
    IF content = <<>> THEN <<>>
    ELSE SetAddAll(SetAddAll(SetAddAll(<<>>, ImgMatches(content)),
                             MdMatches(content)),
                   MalformedMatches(content))

(***************************************************************************)
(* The references of the model's datasets.                                 *)
(***************************************************************************)
HTTP == <<"h", "t", "t", "p", ":", "/", "/">>
\* http://x/a.png
UA == HTTP \o <<"x", "/", "a", ".", "p", "n", "g">>
\* http://x/a.png?2 : UA is a prefix of it
UB == UA \o <<"?", "2">>
\* http://x/c : no extension
UC == HTTP \o <<"x", "/", "c">>
\* http://x/d : no extension
UD == HTTP \o <<"x", "/", "d">>
\* r.png : a relative reference, which new URL() cannot parse
UR == <<"r", ".", "p", "n", "g">>

(***************************************************************************)
(* urlToFilename.                                                          *)
(***************************************************************************)
\* crypto.createHash('md5').update(url).digest('hex').substring(0, 12).
\* The digests of UA, UB, UC and UR are the real ones.  UD is given the
\* digest of UC: the pair stands for two references whose 48-bit truncated
\* digests collide.
Md5Hex12(url) ==
    CASE url = UA -> <<"d", "4", "e", "a", "a", "f", "0", "e", "8", "5", "6", "7">>
      [] url = UB -> <<"d", "b", "2", "7", "9", "b", "b", "2", "1", "1", "8", "b">>
      [] url = UC -> <<"9", "6", "0", "a", "0", "c", "1", "3", "2", "c", "9", "e">>
      [] url = UD -> <<"9", "6", "0", "a", "0", "c", "1", "3", "2", "c", "9", "e">>
      [] url = UR -> <<"b", "0", "c", "0", "f", "9", "2", "8", "a", "5", "3", "b">>
      [] OTHER    -> <<"0", "0", "0", "0", "0", "0", "0", "0", "0", "0", "0", "0">>

\* the length of the scheme prefix http:// or https://, 0 when there is none
SchemeLen(url) ==
    IF OccursAt(url, <<"h", "t", "t", "p", "s", ":", "/", "/">>, 1) THEN 8
    ELSE IF OccursAt(url, HTTP, 1) THEN 7
    ELSE 0

\* new URL(url) does not throw.  Of the references of the model exactly the
\* ones with an http(s) scheme and a host parse.
UrlParses(url) ==
    /\ SchemeLen(url) > 0
    /\ RunEnd(url, SchemeLen(url) + 1, {"/", "?", "#"}) > SchemeLen(url)

\* new URL(url).pathname
UrlPathname(url) ==
    LET hostEnd == RunEnd(url, SchemeLen(url) + 1, {"/", "?", "#"})
        pathEnd == RunEnd(url, hostEnd + 1, {"?", "#"})
    IN  IF pathEnd > hostEnd THEN SubSeq(url, hostEnd + 1, pathEnd) ELSE <<"/">>

\* path.extname
ExtName(p) ==
    LET slashes == {i \in 1..Len(p) : p[i] = "/"}
        base    == IF slashes = {} THEN 1
                   ELSE Max(slashes) + 1
        dots    == {i \in (base + 1)..Len(p) : p[i] = "."}
    IN  IF dots = {} THEN <<>>
        ELSE SubSeq(p, Max(dots), Len(p))

urlToFilename(url) ==
    LET ext == ExtName(UrlPathname(url))
    IN  Md5Hex12(url) \o (IF ext = <<>> THEN <<".", "j", "p", "g">> ELSE ext)

\* `/images/${filename}`
LocalPathOf(filename) == <<"/", "i", "m", "a", "g", "e", "s", "/">> \o filename

(***************************************************************************)
(* The mapping: a JavaScript Map, whose entries keep insertion order.      *)
(***************************************************************************)
MapHas(m, k) == \E i \in 1..Len(m) : m[i].key = k

MapGet(m, k) == m[CHOOSE i \in 1..Len(m) : m[i].key = k].value

\* Map.prototype.set: an existing key keeps its place
MapSet(m, k, v) ==
    IF MapHas(m, k)
    THEN [i \in 1..Len(m) |-> IF m[i].key = k THEN [key |-> k, value |-> v] ELSE m[i]]
    ELSE Append(m, [key |-> k, value |-> v])

MapKeys(m) == {m[i].key : i \in 1..Len(m)}

(***************************************************************************)
(* replaceImageUrls.                                                       *)
(***************************************************************************)
\* the characters of the class [.*+?^${}()|[\]\\]
RegExpSpecial == {".", "*", "+", "?", "^", "$", "{", "}", "(", ")", "|", "[", "]", "\\"}

\* originalUrl.replace(/[.*+?^${}()|[\]\\]/g, '\\$&'): a backslash before
\* every special character
RECURSIVE EscapeRegExp(_)
EscapeRegExp(url) ==
    Bind(url, LAMBDA u :
           IF u = <<>> THEN <<>>
           ELSE (IF Head(u) \in RegExpSpecial THEN <<"\\", Head(u)>> ELSE <<Head(u)>>)
                  \o EscapeRegExp(Tail(u)))

\* the atoms of new RegExp(source): a backslash and the character after it
\* stand for that character, a dot alone for any character but a line
\* break, any other character for itself.  (The sources of the model hold
\* no other operator of the pattern language unescaped.)
RECURSIVE RegExpAtoms(_)
RegExpAtoms(source) ==
    Bind(source, LAMBDA p :
           IF p = <<>> THEN <<>>
           ELSE IF Head(p) = "\\" /\ Len(p) >= 2
           THEN <<[any |-> FALSE, char |-> p[2]]>> \o RegExpAtoms(SubSeq(p, 3, Len(p)))
           ELSE IF Head(p) = "."
           THEN <<[any |-> TRUE, char |-> "."]>> \o RegExpAtoms(Tail(p))
           ELSE <<[any |-> FALSE, char |-> Head(p)]>> \o RegExpAtoms(Tail(p)))

\* the atoms match s at index i
AtomsMatchAt(s, atoms, i) ==
    /\ i >= 1
    /\ i + Len(atoms) - 1 <= Len(s)
    /\ \A k \in 1..Len(atoms) :
          IF atoms[k].any THEN s[i + k - 1] \notin {"\n", "\r"}
          ELSE s[i + k - 1] = atoms[k].char

\* s.replace(new RegExp(source, 'g'), rep): the matches are found left to
\* right and do not overlap.  (No local path of the model holds a `$`, which
\* replace would read as a replacement pattern.)
ReplaceAll(s, source, rep) ==
    Bind(RegExpAtoms(source), LAMBDA atoms :
           LET F[from \in 1..(Len(s) + 1)] ==
                 Bind({i \in from..Len(s) : AtomsMatchAt(s, atoms, i)}, LAMBDA hits :
                        IF hits = {} THEN SubSeq(s, from, Len(s))
                        ELSE SubSeq(s, from, Min(hits) - 1) \o rep
                               \o F[Min(hits) + Len(atoms)])
           IN  F[1])

RECURSIVE ReplaceEntries(_, _)
ReplaceEntries(result, entries) ==
    Bind2(result, entries, LAMBDA r, es :
            IF es = <<>> THEN r
            ELSE LET e == Head(es)
                 IN  ReplaceEntries(IF e.value # e.key
                                    THEN ReplaceAll(r, EscapeRegExp(e.key), e.value)
                                    ELSE r,
                                    Tail(es)))

replaceImageUrls(content, urlMapping) ==
    IF content = <<>> THEN content ELSE ReplaceEntries(content, urlMapping)

(***************************************************************************)
(* The output dataset: csvContent.                                         *)
(***************************************************************************)
\* value.replace(/"/g, '""')
DoubleQuotes(value) == ReplaceAll(value, <<"\"">>, <<"\"", "\"">>)

\* one value of a row, escaped
CsvValue(value) ==
    IF Includes(value, <<",">>) \/ Includes(value, <<"\"">>) \/ Includes(value, <<"\n">>)
    THEN <<"\"">> \o DoubleQuotes(value) \o <<"\"">>
    ELSE value

\* Array.prototype.join
RECURSIVE Join(_, _)
Join(parts, sep) ==
    Bind(parts, LAMBDA ps :
           IF ps = <<>> THEN <<>>
           ELSE IF Len(ps) = 1 THEN ps[1]
           ELSE ps[1] \o sep \o Join(Tail(ps), sep))

\* a header name as a text
HeaderText(h) ==
    CASE h = "id"            -> <<"i", "d">>
      [] h = "body_html"     -> <<"b", "o", "d", "y", "_", "h", "t", "m", "l">>
      [] h = "body_markdown" -> <<"b", "o", "d", "y", "_", "m", "a", "r", "k", "d", "o", "w", "n">>
      [] h = "main_image"    -> <<"m", "a", "i", "n", "_", "i", "m", "a", "g", "e">>

\* Object.keys of a row: csv-parser gives every row the columns of the header
\* line, in the header's order
HEADERS == <<"id", "body_html", "body_markdown", "main_image">>

CsvContent(rows) ==
    Join(<<Join([i \in 1..Len(HEADERS) |-> HeaderText(HEADERS[i])], <<",">>)>>
         \o [r \in 1..Len(rows) |->
               Join([i \in 1..Len(HEADERS) |-> CsvValue(rows[r][HEADERS[i]])], <<",">>)],
         <<"\n">>)

\* UpdateArticle with body_markdown rewritten from body_html
UpdateArticleWrongField(article, urlMapping) ==
    [article EXCEPT
       !.body_html     = replaceImageUrls(article.body_html, urlMapping),
       !.body_markdown = replaceImageUrls(article.body_html, urlMapping),
       !.main_image    = IF article.main_image # <<>>
                            /\ MapHas(urlMapping, Trim(article.main_image))
                         THEN MapGet(urlMapping, Trim(article.main_image))
                         ELSE article.main_image]

\* one article of updatedArticles
UpdateArticle(article, urlMapping) ==
    [article EXCEPT
       !.body_html     = replaceImageUrls(article.body_html, urlMapping),
       !.body_markdown = replaceImageUrls(article.body_markdown, urlMapping),
       !.main_image    = IF article.main_image # <<>>
                            /\ MapHas(urlMapping, Trim(article.main_image))
                         THEN MapGet(urlMapping, Trim(article.main_image))
                         ELSE article.main_image]

(***************************************************************************)
(* The input datasets of the model.                                        *)
(***************************************************************************)
\* <img src="u">
ImgTag(u) == <<"<", "i", "m", "g", " ", "s", "r", "c", "=", "\"">> \o u \o <<"\"", ">">>
\* ![x](u)
MdImage(u) == <<"!", "[", "x", "]", "(">> \o u \o <<")">>

\* two articles that share UA; UB has UA as a prefix; UR does not parse; the
\* primary image of the first is UC with a blank before it
DatasetShared ==
    << [id            |-> <<"1">>,
        body_html     |-> ImgTag(UA) \o <<" ">> \o ImgTag(UB),
        body_markdown |-> MdImage(UA),
        main_image    |-> <<" ">> \o UC],
       [id            |-> <<"2">>,
        body_html     |-> ImgTag(UA),
        body_markdown |-> <<"s", "e", "e", ",", "\n">> \o MdImage(UR),
        main_image    |-> <<>>] >>

\* one article with two references whose file names coincide
DatasetCollide ==
    << [id            |-> <<"3">>,
        body_html     |-> ImgTag(UC) \o ImgTag(UD),
        body_markdown |-> <<>>,
        main_image    |-> UD] >>

\* one article whose first reference does not parse
DatasetRelativeFirst ==
    << [id            |-> <<"4">>,
        body_html     |-> <<>>,
        body_markdown |-> MdImage(UR) \o <<" ">> \o MdImage(UA) \o <<" ">> \o MdImage(UB),
        main_image    |-> <<>>] >>

\* no article at all
DatasetEmpty == <<>>

Datasets == {DatasetShared, DatasetCollide, DatasetRelativeFirst, DatasetEmpty}

\* the references of the datasets
Urls == {UA, UB, UC, UD, UR}

\* the files a run of the model may find or leave in the image directory
FileNames == {urlToFilename(u) : u \in {v \in Urls : UrlParses(v)}}

\* the body the server answers a request for url with
BytesOf(url) == [body |-> url]

NoFile == [body |-> <<>>]

\* the references whose file an earlier, interrupted run may have left
Leftovers == {UA, UC}

(***************************************************************************)
(* The state.  Four groups of variables: a run of the script (and the run  *)
(* after it), one call of replaceImageUrls, one call of downloadImage,     *)
(* the build of the site.                                                  *)
(***************************************************************************)
VARIABLES
    csvInput,        \* the rows of the file CSV_INPUT
    csvOutput,       \* the file CSV_OUTPUT: its text, or NoOutput
    imageDir,        \* IMAGE_DIR: file name -> the bytes of the file, or NoFile
    run,             \* 1: the first run of the script, 2: the run after it
    pc,              \* where migrateImages is: read, download, done, exit1
    rowsRead,        \* the number of `data` events of the read stream so far
    articles,        \* migrateImages: articles
    allImageUrls,    \* migrateImages: allImageUrls (a Set, in insertion order)
    updatedArticles, \* migrateImages: updatedArticles
    queue,           \* downloadAllImages: queue
    active,          \* downloadAllImages: active
    completed,       \* downloadAllImages: completed
    urlMapping,      \* downloadAllImages: urlMapping
    resolved,        \* downloadAllImages: resolve(urlMapping) has been called
    tasks,           \* the calls of processImage, in the order of their start
    micro,           \* the microtask queue of the event loop
    fetched,         \* the calls of downloadImage by processImage in this run
    prev,            \* what the first run left, once the second has started
    content,         \* replaceImageUrls: content
    entries,         \* replaceImageUrls: urlMapping
    result,          \* replaceImageUrls: the value returned, once it has returned
    now,             \* downloadImage: the time since the top-level call, in ticks
    calls,           \* downloadImage: the top-level call and the calls it made
    built            \* build.js: the dataset file build() has loaded, or NoBuild

runVars == <<csvInput, csvOutput, imageDir, run, pc, rowsRead, articles, allImageUrls,
             updatedArticles, queue, active, completed, urlMapping, resolved, tasks,
             micro, fetched, prev>>

rewriteVars == <<content, entries, result>>

fetchVars == <<now, calls>>

buildVars == <<built>>

vars == <<runVars, rewriteVars, fetchVars, buildVars>>

NoOutput == <<"<", "n", "o", " ", "f", "i", "l", "e", ">">>

NoResult == <<"<", "n", "o", "t", " ", "r", "e", "t", "u", "r", "n", "e", "d", ">">>

NoPrev == [mapping |-> <<>>, output |-> NoOutput, failed |-> {}]

\* the outcomes of a download that make processImage take its catch branch
FetchFailures == {"timeout", "http", "transport"}

\* what downloadImage's promise settles with
FetchResults == {"bytes"} \cup FetchFailures

(***************************************************************************)
(* processImage and downloadAllImages.                                     *)
(***************************************************************************)
\* FileExists without the check: no file is ever found
FileExistsNever(dir, filename) == FALSE

\* fs.existsSync(outputPath)
FileExists(dir, filename) == dir[filename] # NoFile

\* WriteFileSync that writes nothing
WriteFileSyncSkipped(dir, filename, buffer) == dir

\* fs.writeFileSync(outputPath, buffer)
WriteFileSync(dir, filename, buffer) == [dir EXCEPT ![filename] = buffer]

\* MappingAfterFetch with a catch block that sets no entry
MappingAfterFetchNoFallback(mapping, url, res) ==
    IF res = "bytes" THEN MapSet(mapping, url, LocalPathOf(urlToFilename(url)))
    ELSE mapping

\* the entry processImage sets after `await downloadImage(url)`: the local
\* path when the download gave the bytes, the reference itself in the catch
\* block
MappingAfterFetch(mapping, url, res) ==
    IF res = "bytes" THEN MapSet(mapping, url, LocalPathOf(urlToFilename(url)))
    ELSE MapSet(mapping, url, url)

\* the state downloadAllImages works on, as one record
Sched ==
    [queue |-> queue, active |-> active, completed |-> completed,
     urlMapping |-> urlMapping, resolved |-> resolved, tasks |-> tasks,
     micro |-> micro, fetched |-> fetched]

Reaction(kind, i, res) == [kind |-> kind, task |-> i, res |-> res]

\* processImage(url, urlMapping) up to its first await or its return, started
\* as the next task of s.  A promise that is already settled when
\* .then(...).catch(...) is attached puts its reaction on the microtask queue.
\* hadFile records whether the file of url was there when the task started,
\* peers the tasks that were in flight (started, their callback not yet run)
\* when it started, request the request made by downloadImage for the task
\* ("none": no request was made).
ProcessImageStart(s, url) ==
    LET i    == Len(s.tasks) + 1
        Task(st, outcome) ==
            [url |-> url, st |-> st, outcome |-> outcome,
             hadFile |-> UrlParses(url) /\ imageDir[urlToFilename(url)] # NoFile,
             peers |-> {j \in 1..Len(s.tasks) : s.tasks[j].st # "done"},
             request |-> IF st = "fetching" THEN "open" ELSE "none"]
        Settled(st, outcome, mapping) ==
            [s EXCEPT !.tasks = Append(@, Task(st, outcome)),
                      !.urlMapping = mapping,
                      !.micro = Append(@, Reaction("then", i, "none"))]
    IN  IF MapHas(s.urlMapping, url)
        THEN Settled("fulfilled", "known", s.urlMapping)
        ELSE IF ~UrlParses(url)
        THEN Settled("rejected", "threw", s.urlMapping)
        ELSE IF FileExists(imageDir, urlToFilename(url))
        THEN Settled("fulfilled", "exists",
                     MapSet(s.urlMapping, url, LocalPathOf(urlToFilename(url))))
        ELSE [s EXCEPT !.tasks = Append(@, Task("fetching", "none")),
                       !.fetched = Append(@, url)]

\* MayStart with the comparison off by one
MayStartOffByOne(s) == s.active <= Concurrency /\ s.queue # <<>>

\* the guard of the while loop of processNext
MayStart(s) == s.active < Concurrency /\ s.queue # <<>>

\* the while loop of processNext
RECURSIVE StartLoop(_)
StartLoop(s) ==
    Bind(s, LAMBDA t :
           IF MayStart(t)
           THEN StartLoop(ProcessImageStart([t EXCEPT !.queue = Tail(@), !.active = @ + 1],
                                            Head(t.queue)))
           ELSE t)

\* ProcessNext with a test that looks at the queue only
ProcessNextQueueOnly(s) ==
    Bind(StartLoop(s), LAMBDA t :
           IF t.queue = <<>>
           THEN [t EXCEPT !.resolved = TRUE,
                          !.micro = IF t.resolved THEN @
                                    ELSE Append(@, Reaction("main", 0, "none"))]
           ELSE t)

\* processNext(): the loop, then the test that resolves the promise of
\* downloadAllImages, on which migrateImages waits
ProcessNext(s) ==
    Bind(StartLoop(s), LAMBDA t :
           IF t.active = 0 /\ t.queue = <<>>
           THEN [t EXCEPT !.resolved = TRUE,
                          !.micro = IF t.resolved THEN @
                                    ELSE Append(@, Reaction("main", 0, "none"))]
           ELSE t)

\* TaskCallback without its call of processNext()
TaskCallbackNoNext(s, i) ==
    [s EXCEPT !.completed = @ + 1,
              !.active = @ - 1,
              !.tasks[i].st = "done"]

\* TaskCallback that does not count the task as completed
TaskCallbackNoCount(s, i) ==
    ProcessNext([s EXCEPT !.active = @ - 1,
                          !.tasks[i].st = "done"])

\* the callbacks given to .then and to .catch in processNext do the same
TaskCallback(s, i) ==
    ProcessNext([s EXCEPT !.completed = @ + 1,
                          !.active = @ - 1,
                          !.tasks[i].st = "done"])

SetSched(s) ==
    \E t \in {s} :
       /\ queue' = t.queue
       /\ active' = t.active
       /\ completed' = t.completed
       /\ urlMapping' = t.urlMapping
       /\ resolved' = t.resolved
       /\ tasks' = t.tasks
       /\ micro' = t.micro
       /\ fetched' = t.fetched

\* RowUrls on an array instead of a Set: a reference is added once for each
\* of its places
RowUrlsNoSet(set, row) ==
    LET a == IF row.body_html # <<>>
             THEN set \o extractImageUrls(row.body_html) ELSE set
        b == IF row.body_markdown # <<>>
             THEN a \o extractImageUrls(row.body_markdown) ELSE a
    IN  IF row.main_image # <<>> /\ Trim(row.main_image) # <<>>
        THEN Append(b, Trim(row.main_image)) ELSE b

\* the rows' references added to allImageUrls by the `data` handler
RowUrls(set, row) ==
    LET a == IF row.body_html # <<>>
             THEN SetAddAll(set, extractImageUrls(row.body_html)) ELSE set
        b == IF row.body_markdown # <<>>
             THEN SetAddAll(a, extractImageUrls(row.body_markdown)) ELSE a
    IN  IF row.main_image # <<>> /\ Trim(row.main_image) # <<>>
        THEN SetAdd(b, Trim(row.main_image)) ELSE b

\* the variables of the other two groups, which a run leaves alone
RewriteIdle == content = <<>> /\ entries = <<>> /\ result = NoResult

FetchIdle == now = 0 /\ calls = <<>>

\* build() has not run
NoBuild == [file |-> "", migrated |-> FALSE]

BuildIdle == built = NoBuild

RunInit ==
    /\ csvInput \in Datasets
    /\ csvOutput = NoOutput
    /\ \E left \in SUBSET Leftovers :
          imageDir = [f \in FileNames |->
                        IF \E u \in left : urlToFilename(u) = f
                        THEN BytesOf(CHOOSE u \in left : urlToFilename(u) = f)
                        ELSE NoFile]
    /\ run = 1
    /\ pc = "read"
    /\ rowsRead = 0
    /\ articles = <<>>
    /\ allImageUrls = <<>>
    /\ updatedArticles = <<>>
    /\ queue = <<>>
    /\ active = 0
    /\ completed = 0
    /\ urlMapping = <<>>
    /\ resolved = FALSE
    /\ tasks = <<>>
    /\ micro = <<>>
    /\ fetched = <<>>
    /\ prev = NoPrev

Init == RunInit /\ RewriteIdle /\ FetchIdle /\ BuildIdle

\* a `data` event of the read stream
ReadRow ==
    /\ pc = "read"
    /\ rowsRead < Len(csvInput)
    /\ rowsRead' = rowsRead + 1
    /\ articles' = Append(articles, csvInput[rowsRead + 1])
    /\ allImageUrls' = RowUrls(allImageUrls, csvInput[rowsRead + 1])
    /\ UNCHANGED <<csvInput, csvOutput, imageDir, run, pc, updatedArticles, queue,
                   active, completed, urlMapping, resolved, tasks, micro, fetched, prev>>
    /\ UNCHANGED <<rewriteVars, fetchVars, buildVars>>

\* ReadError that leaves the rows read so far in the output dataset
ReadErrorPartialOutput ==
    /\ pc = "read"
    /\ pc' = "exit1"
    /\ csvOutput' = CsvContent(articles)
    /\ UNCHANGED <<csvInput, imageDir, run, rowsRead, articles, allImageUrls,
                   updatedArticles, queue, active, completed, urlMapping, resolved,
                   tasks, micro, fetched, prev>>
    /\ UNCHANGED <<rewriteVars, fetchVars, buildVars>>

\* reading fails.  An `error` event of the parser rejects the promise of
\* line 203, migrateImages rejects, and the top-level catch calls
\* process.exit(1).  An `error` event of the file stream has no listener
\* (pipe() returns the parser, and hands no error on): it is thrown as an
\* uncaught exception, which ends the process with exit code 1 as well.
ReadError ==
    /\ pc = "read"
    /\ pc' = "exit1"
    /\ UNCHANGED <<csvInput, csvOutput, imageDir, run, rowsRead, articles, allImageUrls,
                   updatedArticles, queue, active, completed, urlMapping, resolved,
                   tasks, micro, fetched, prev>>
    /\ UNCHANGED <<rewriteVars, fetchVars, buildVars>>

\* the `end` event: migrateImages goes on to call downloadAllImages, which
\* runs processNext() once before it returns
StartDownload ==
    /\ pc = "read"
    /\ rowsRead = Len(csvInput)
    /\ pc' = "download"
    /\ SetSched(ProcessNext([Sched EXCEPT !.queue = allImageUrls]))
    /\ UNCHANGED <<csvInput, csvOutput, imageDir, run, rowsRead, articles, allImageUrls,
                   updatedArticles, prev>>
    /\ UNCHANGED <<rewriteVars, fetchVars, buildVars>>

\* the request once the promise of downloadImage has settled with res: the
\* callback of setTimeout rejects the promise and leaves the request as it
\* is; after a response or an error event the request is over
RequestAfterSettle(res) == IF res = "timeout" THEN "open" ELSE "closed"

\* the promise of downloadImage settles (a response has ended, an error
\* event, or the timer): processImage resumes in a microtask
FetchSettle(i, res) ==
    /\ pc = "download"
    /\ micro = <<>>
    /\ i \in 1..Len(tasks)
    /\ tasks[i].st = "fetching"
    /\ tasks' = [tasks EXCEPT ![i].st = "settled",
                              ![i].request = RequestAfterSettle(res)]
    /\ micro' = <<Reaction("resume", i, res)>>
    /\ UNCHANGED <<csvInput, csvOutput, imageDir, run, pc, rowsRead, articles,
                   allImageUrls, updatedArticles, queue, active, completed, urlMapping,
                   resolved, fetched, prev>>
    /\ UNCHANGED <<rewriteVars, fetchVars, buildVars>>

\* the request of a download that was reported as timed out ends: its
\* response arrives and ends, or it fails; the settled promise ignores it
RequestCloses(i) ==
    /\ pc \in {"download", "done"}
    /\ micro = <<>>
    /\ i \in 1..Len(tasks)
    /\ tasks[i].st # "fetching"
    /\ tasks[i].request = "open"
    /\ tasks' = [tasks EXCEPT ![i].request = "closed"]
    /\ UNCHANGED <<csvInput, csvOutput, imageDir, run, pc, rowsRead, articles,
                   allImageUrls, updatedArticles, queue, active, completed, urlMapping,
                   resolved, micro, fetched, prev>>
    /\ UNCHANGED <<rewriteVars, fetchVars, buildVars>>

\* processImage after `await downloadImage(url)`: the try block goes on, or
\* the catch block runs; the promise of processImage is fulfilled either way
ResumeProcessImage ==
    /\ micro # <<>>
    /\ Head(micro).kind = "resume"
    /\ LET i   == Head(micro).task
           res == Head(micro).res
           url == tasks[i].url
       IN  /\ imageDir' = IF res = "bytes"
                          THEN WriteFileSync(imageDir, urlToFilename(url), BytesOf(url))
                          ELSE imageDir
           /\ urlMapping' = MappingAfterFetch(urlMapping, url, res)
           /\ tasks' = [tasks EXCEPT ![i].st = "fulfilled",
                                     ![i].outcome = IF res = "bytes" THEN "saved" ELSE res]
           /\ micro' = Append(Tail(micro), Reaction("then", i, "none"))
    /\ UNCHANGED <<csvInput, csvOutput, run, pc, rowsRead, articles, allImageUrls,
                   updatedArticles, queue, active, completed, resolved, fetched, prev>>
    /\ UNCHANGED <<rewriteVars, fetchVars, buildVars>>

\* the reaction of .then(...) to a fulfilled processImage: the first callback
ThenCallback ==
    /\ micro # <<>>
    /\ Head(micro).kind = "then"
    /\ tasks[Head(micro).task].st = "fulfilled"
    /\ SetSched(TaskCallback([Sched EXCEPT !.micro = Tail(@)], Head(micro).task))
    /\ UNCHANGED <<csvInput, csvOutput, imageDir, run, pc, rowsRead, articles,
                   allImageUrls, updatedArticles, prev>>
    /\ UNCHANGED <<rewriteVars, fetchVars, buildVars>>

\* the reaction of .then(...) to a rejected processImage: the rejection is
\* handed on to the promise .catch(...) is attached to
ThenPassRejection ==
    /\ micro # <<>>
    /\ Head(micro).kind = "then"
    /\ tasks[Head(micro).task].st = "rejected"
    /\ micro' = Append(Tail(micro), [Head(micro) EXCEPT !.kind = "catch"])
    /\ UNCHANGED <<csvInput, csvOutput, imageDir, run, pc, rowsRead, articles,
                   allImageUrls, updatedArticles, queue, active, completed, urlMapping,
                   resolved, tasks, fetched, prev>>
    /\ UNCHANGED <<rewriteVars, fetchVars, buildVars>>

\* CatchCallback without a callback: the rejection is dropped
CatchCallbackAbsent ==
    /\ micro # <<>>
    /\ Head(micro).kind = "catch"
    /\ micro' = Tail(micro)
    /\ UNCHANGED <<csvInput, csvOutput, imageDir, run, pc, rowsRead, articles,
                   allImageUrls, updatedArticles, queue, active, completed, urlMapping,
                   resolved, tasks, fetched, prev>>
    /\ UNCHANGED <<rewriteVars, fetchVars, buildVars>>

\* the reaction of .catch(...): the second callback
CatchCallback ==
    /\ micro # <<>>
    /\ Head(micro).kind = "catch"
    /\ SetSched(TaskCallback([Sched EXCEPT !.micro = Tail(@)], Head(micro).task))
    /\ UNCHANGED <<csvInput, csvOutput, imageDir, run, pc, rowsRead, articles,
                   allImageUrls, updatedArticles, prev>>
    /\ UNCHANGED <<rewriteVars, fetchVars, buildVars>>

\* the file name of CSV_INPUT, in DATA_DIR
CSV_INPUT == "forem_articles_filtered_by_outdated.csv"

\* CSV_OUTPUT naming the file of CSV_INPUT
CSV_OUTPUT_IsTheInput == CSV_INPUT

\* the file name of CSV_OUTPUT, in DATA_DIR
CSV_OUTPUT == "forem_articles_with_local_images.csv"

\* the two dataset files of DATA_DIR after fs.writeFileSync(path, csvContent),
\* csvContent being the text of the rows; files is [input, output].  The
\* input file is kept as the rows csv-parser reads from it.
WriteDataset(files, path, rows) ==
    [input  |-> IF path = CSV_INPUT THEN rows ELSE files.input,
     output |-> IF path = CSV_OUTPUT THEN CsvContent(rows) ELSE files.output]

\* NothingToWrite without the test: the file is written in every case
NothingToWriteNever(rows) == FALSE

\* updatedArticles.length === 0: migrateImages returns before it writes
NothingToWrite(rows) == Len(rows) = 0

\* migrateImages after `await downloadAllImages(...)`: steps 3 and 4
WriteUpdatedCsv ==
    /\ micro # <<>>
    /\ Head(micro).kind = "main"
    /\ micro' = Tail(micro)
    /\ updatedArticles' = [a \in 1..Len(articles) |-> UpdateArticle(articles[a], urlMapping)]
    /\ \E files \in {IF NothingToWrite(updatedArticles')
                      THEN [input |-> csvInput, output |-> csvOutput]
                      ELSE WriteDataset([input |-> csvInput, output |-> csvOutput],
                                        CSV_OUTPUT, updatedArticles')} :
          /\ csvInput' = files.input
          /\ csvOutput' = files.output
    /\ pc' = "done"
    /\ UNCHANGED <<imageDir, run, rowsRead, articles, allImageUrls, queue,
                   active, completed, urlMapping, resolved, tasks, fetched, prev>>
    /\ UNCHANGED <<rewriteVars, fetchVars, buildVars>>

\* the references whose download failed in this run
FailedUrls ==
    {tasks[i].url : i \in {j \in 1..Len(tasks) : tasks[j].outcome \in FetchFailures}}

\* the script is run again, on the same input and the image directory as it is
SecondRun ==
    /\ pc = "done"
    /\ run = 1
    /\ run' = 2
    /\ prev' = [mapping |-> urlMapping, output |-> csvOutput, failed |-> FailedUrls]
    /\ pc' = "read"
    /\ rowsRead' = 0
    /\ articles' = <<>>
    /\ allImageUrls' = <<>>
    /\ updatedArticles' = <<>>
    /\ queue' = <<>>
    /\ active' = 0
    /\ completed' = 0
    /\ urlMapping' = <<>>
    /\ resolved' = FALSE
    /\ tasks' = <<>>
    /\ micro' = <<>>
    /\ fetched' = <<>>
    /\ UNCHANGED <<csvInput, csvOutput, imageDir>>
    /\ UNCHANGED <<rewriteVars, fetchVars, buildVars>>

\* src/scripts/build.js, build(): the file of DATA_DIR whose rows it loads as
\* the articles
BuildArticlesFile == "forem_articles_filtered_by_outdated.csv"

\* `npm run build`, once a run of the migration has ended (with or without
\* an output dataset).  migrated records whether the file of CSV_OUTPUT
\* existed when build() loaded the articles.
Build ==
    /\ built = NoBuild
    /\ pc \in {"done", "exit1"}
    /\ built' = [file |-> BuildArticlesFile, migrated |-> csvOutput # NoOutput]
    /\ UNCHANGED <<runVars, rewriteVars, fetchVars>>

Next ==
    \/ ReadRow
    \/ ReadError
    \/ StartDownload
    \/ \E i \in 1..Len(tasks) : \E res \in FetchResults : FetchSettle(i, res)
    \/ \E i \in 1..Len(tasks) : RequestCloses(i)
    \/ ResumeProcessImage
    \/ ThenCallback
    \/ ThenPassRejection
    \/ CatchCallback
    \/ WriteUpdatedCsv
    \/ SecondRun
    \/ Build

Spec == Init /\ [][Next]_vars

\* the event loop runs every callback that is ready, and every download
\* settles (by its response, an error or its timer)
FairSpec == Spec /\ WF_vars(Next)

(***************************************************************************)
(* A run that is aborted: the process ends between two steps, or inside    *)
(* fs.writeFileSync of processImage, and the script is run again.          *)
(***************************************************************************)
\* the lengths a file may have when the process ends inside
\* fs.writeFileSync(outputPath, buffer), which opens the file, truncates it
\* and writes the buffer: a proper prefix is on disk.  The model keeps the
\* shortest and the longest prefix that is not empty.
PartialLengths(buffer) == {1, Len(buffer.body) - 1}

\* the process is gone, and what it held in memory with it
ProcessGone ==
    /\ pc' = "killed"
    /\ rowsRead' = 0
    /\ articles' = <<>>
    /\ allImageUrls' = <<>>
    /\ updatedArticles' = <<>>
    /\ queue' = <<>>
    /\ active' = 0
    /\ completed' = 0
    /\ urlMapping' = <<>>
    /\ resolved' = FALSE
    /\ tasks' = <<>>
    /\ micro' = <<>>
    /\ fetched' = <<>>

\* the process ends between two steps of the run
Kill ==
    /\ pc \in {"read", "download"}
    /\ ProcessGone
    /\ UNCHANGED <<csvInput, csvOutput, imageDir, run, prev>>
    /\ UNCHANGED <<rewriteVars, fetchVars, buildVars>>

\* the process ends inside fs.writeFileSync(outputPath, buffer) of
\* processImage, after `await downloadImage(url)` gave the bytes
KillDuringWrite ==
    /\ pc = "download"
    /\ micro # <<>>
    /\ Head(micro).kind = "resume"
    /\ Head(micro).res = "bytes"
    /\ \E url \in {tasks[Head(micro).task].url} :
       \E n \in PartialLengths(BytesOf(url)) :
          imageDir' = WriteFileSync(imageDir, urlToFilename(url),
                                    [body |-> SubSeq(BytesOf(url).body, 1, n)])
    /\ ProcessGone
    /\ UNCHANGED <<csvInput, csvOutput, run, prev>>
    /\ UNCHANGED <<rewriteVars, fetchVars, buildVars>>

\* the script is run again after the abort, on the same input and the image
\* directory as it is; the aborted run left no mapping and reported nothing
RunAfterAbort ==
    /\ pc = "killed"
    /\ run = 1
    /\ run' = 2
    /\ prev' = [mapping |-> <<>>, output |-> csvOutput, failed |-> {}]
    /\ pc' = "read"
    /\ UNCHANGED <<csvInput, csvOutput, imageDir, rowsRead, articles, allImageUrls,
                   updatedArticles, queue, active, completed, urlMapping, resolved,
                   tasks, micro, fetched>>
    /\ UNCHANGED <<rewriteVars, fetchVars, buildVars>>

AbortNext ==
    \/ Next
    \/ Kill
    \/ KillDuringWrite
    \/ RunAfterAbort

AbortSpec == Init /\ [][AbortNext]_vars

(***************************************************************************)
(* One call of replaceImageUrls, on a text and a mapping made of the       *)
(* references of the model.                                                *)
(***************************************************************************)
\* the number of pieces the text is made of, at most
MaxPieces == 2

\* the number of entries of the mapping, at most
MaxEntries == 2

\* http://x/a_png : UA with another character where UA has its dot
UU == HTTP \o <<"x", "/", "a", "_", "p", "n", "g">>

Pieces == {UA, UB, UC, UU, <<" ">>}

RECURSIVE Texts(_)
Texts(n) ==
    IF n = 0 THEN {<<>>}
    ELSE Bind(Texts(n - 1), LAMBDA T : T \cup {t \o p : t \in T, p \in Pieces})

\* the entries downloadAllImages can set for the references UA, UB and UC:
\* the local path, or the reference itself
MappingEntries ==
    UNION {{[key |-> u, value |-> u],
            [key |-> u, value |-> LocalPathOf(urlToFilename(u))]} : u \in {UA, UB, UC}}

\* the mappings of at most n entries: a Map holds a key once
Mappings(n) ==
    {m \in UNION {[1..k -> MappingEntries] : k \in 0..n} :
        \A i, j \in DOMAIN m : i # j => m[i].key # m[j].key}

\* the state of a run that has not started, on an empty dataset and an
\* empty image directory
RunIdle ==
    /\ RunInit
    /\ csvInput = DatasetEmpty
    /\ imageDir = [f \in FileNames |-> NoFile]

RewriteInit ==
    /\ RunIdle
    /\ FetchIdle
    /\ BuildIdle
    /\ content \in Texts(MaxPieces)
    /\ entries \in Mappings(MaxEntries)
    /\ result = NoResult

\* replaceImageUrls(content, urlMapping) is called and returns
CallReplaceImageUrls ==
    /\ result = NoResult
    /\ result' = replaceImageUrls(content, entries)
    /\ UNCHANGED <<content, entries>>
    /\ UNCHANGED <<runVars, fetchVars, buildVars>>

RewriteNext == CallReplaceImageUrls

RewriteSpec == RewriteInit /\ [][RewriteNext]_vars

(***************************************************************************)
(* One call of extractImageUrls, on texts made of image fragments in the   *)
(* three syntaxes.                                                         *)
(***************************************************************************)
\* the number of image fragments of the text, at most
MaxFragments == 3

\* http://x/b.png and http://x/c.png
XB == HTTP \o <<"x", "/", "b", ".", "p", "n", "g">>
XC == HTTP \o <<"x", "/", "c", ".", "p", "n", "g">>

\* ![alt](u)
MdImageAlt(alt, u) == <<"!", "[">> \o alt \o <<"]", "(">> \o u \o <<")">>
\* ![alt(u) : the closing bracket is missing
MalformedImage(alt, u) == <<"!", "[">> \o alt \o <<"(">> \o u \o <<")">>

\* " and "
And == <<" ", "a", "n", "d", " ">>

Fragments ==
    UNION {{ImgTag(u), MdImageAlt(<<"b">>, u), MalformedImage(<<"c">>, u)} :
             u \in {UA, XB, XC}}

\* the texts of at most n fragments, joined by " and "
RECURSIVE FragmentTexts(_)
FragmentTexts(n) ==
    IF n = 0 THEN {<<>>}
    ELSE Bind(FragmentTexts(n - 1), LAMBDA T :
                T \cup {IF t = <<>> THEN f ELSE t \o And \o f : t \in T, f \in Fragments})

\* <img src="http://x/a.png"> and ![b](http://x/b.png) and ![c(http://x/c.png)
ExampleText ==
    ImgTag(UA) \o And \o MdImageAlt(<<"b">>, XB) \o And \o MalformedImage(<<"c">>, XC)

ExtractInit ==
    /\ RunIdle
    /\ FetchIdle
    /\ BuildIdle
    /\ content \in FragmentTexts(MaxFragments)
    /\ entries = <<>>
    /\ result = NoResult

\* extractImageUrls(content) is called and returns
CallExtractImageUrls ==
    /\ result = NoResult
    /\ result' = extractImageUrls(content)
    /\ UNCHANGED <<content, entries>>
    /\ UNCHANGED <<runVars, fetchVars, buildVars>>

ExtractNext == CallExtractImageUrls

ExtractSpec == ExtractInit /\ [][ExtractNext]_vars

(***************************************************************************)
(* The serialization of one field value of the output dataset.             *)
(***************************************************************************)
\* the length of a field value, at most
MaxValueLen == 3

\* the characters of a field value: a letter, the delimiter, the quote, the
\* line feed and the carriage return
ValueChars == {"a", ",", "\"", "\n", "\r"}

FieldValues == UNION {[1..n -> ValueChars] : n \in 0..MaxValueLen}

CsvInit ==
    /\ RunIdle
    /\ FetchIdle
    /\ BuildIdle
    /\ content \in FieldValues
    /\ entries = <<>>
    /\ result = NoResult

\* the callback of headers.map in migrateImages, on the value content
SerializeValue ==
    /\ result = NoResult
    /\ result' = CsvValue(content)
    /\ UNCHANGED <<content, entries>>
    /\ UNCHANGED <<runVars, fetchVars, buildVars>>

CsvNext == SerializeValue

CsvSpec == CsvInit /\ [][CsvNext]_vars

(***************************************************************************)
(* One top-level call of downloadImage and the calls it makes for          *)
(* redirects.  Time is counted in ticks since the top-level call.  The     *)
(* option {timeout: 20000} of get() makes the socket emit `timeout` when   *)
(* it is idle; nothing listens to that event, so it has no effect.         *)
(***************************************************************************)
\* the `timeout` parameter of downloadImage, in ticks
Timeout == 2

\* the number of redirects the servers of the model answer with, at most
MaxHops == 2

\* the time the model follows the call for, in ticks
MaxTime == 6

\* response.statusCode
StatusCodes == {200, 301, 302, 303, 307, 308, 404}

\* response.headers.location
Locations == {UA, UC}

\* the 3xx status codes whose response carries a Location header
RedirectCodes == {301, 302, 303, 307, 308}

\* the promise has not been resolved with a buffer
NoBuffer == [body |-> <<>>]

\* no response yet
NoAnswer == [status |-> 0, location |-> <<>>]

\* the status code and, for a 3xx, the Location header of a response
Answer(status, location) ==
    [status |-> status, location |-> IF status \in RedirectCodes THEN location ELSE <<>>]

\* downloadImage(url, timeout) called at time t: the promise is pending, the
\* timer is armed, the request is sent.  parent is the call whose response
\* callback made this call (0: none), answer the response to its request.
NewCall(url, t, parent) ==
    [url |-> url, parent |-> parent, timer |-> "armed", deadline |-> t + Timeout,
     request |-> "sent", promise |-> "pending", outcome |-> "none", answer |-> NoAnswer,
     value |-> NoBuffer]

\* response.statusCode === 301 || response.statusCode === 302
Follows(status) == status \in {301, 302}

\* clearTimeout(timeoutId): a timer that has fired stays as it is
ClearTimeout(c) == [c EXCEPT !.timer = IF @ = "armed" THEN "cleared" ELSE @]

\* resolve(value) or reject(...) of call k: a settled promise ignores it; the
\* call that made call k for a redirect settles the same way and with the
\* same value, through .then(resolve).catch(reject)
RECURSIVE Settle(_, _, _, _)
Settle(cs, k, outcome, value) ==
    Bind(cs, LAMBDA c :
           IF k = 0 \/ c[k].promise # "pending" THEN c
           ELSE Settle([c EXCEPT ![k].promise = IF outcome = "bytes" THEN "resolved"
                                                ELSE "rejected",
                                 ![k].outcome = outcome,
                                 ![k].value = value],
                       c[k].parent, outcome, value))

FetchInit == RunIdle /\ RewriteIdle /\ FetchIdle /\ BuildIdle

\* the top-level call, by processImage
DownloadImage(url) ==
    /\ calls = <<>>
    /\ calls' = <<NewCall(url, now, 0)>>
    /\ UNCHANGED now
    /\ UNCHANGED <<runVars, rewriteVars, buildVars>>

\* the callback of get(): the response of call k has arrived
Response(k, status, location) ==
    /\ calls[k].request = "sent"
    /\ IF Follows(status)
       THEN /\ Len(calls) <= MaxHops
            /\ calls' = Append([calls EXCEPT ![k] = [ClearTimeout(@) EXCEPT
                                                       !.request = "redirected",
                                                       !.answer = Answer(status, location)]],
                               NewCall(location, now, k))
       ELSE IF status # 200
       THEN calls' = Settle([calls EXCEPT ![k] = [ClearTimeout(@) EXCEPT
                                                    !.request = "closed",
                                                    !.answer = Answer(status, location)]],
                            k, "http", NoBuffer)
       ELSE calls' = [calls EXCEPT ![k].request = "body",
                                   ![k].answer = Answer(status, location)]
    /\ UNCHANGED now
    /\ UNCHANGED <<runVars, rewriteVars, buildVars>>

\* the `end` event of the response of call k: the promise is resolved with
\* the chunks of this response, the body the server of calls[k].url answers
ResponseEnd(k) ==
    /\ calls[k].request = "body"
    /\ calls' = Settle([calls EXCEPT ![k] = [ClearTimeout(@) EXCEPT !.request = "closed"]],
                       k, "bytes", BytesOf(calls[k].url))
    /\ UNCHANGED now
    /\ UNCHANGED <<runVars, rewriteVars, buildVars>>

\* the `error` event of the response of call k
ResponseError(k) ==
    /\ calls[k].request = "body"
    /\ calls' = Settle([calls EXCEPT ![k] = [ClearTimeout(@) EXCEPT !.request = "closed"]],
                       k, "transport", NoBuffer)
    /\ UNCHANGED now
    /\ UNCHANGED <<runVars, rewriteVars, buildVars>>

\* the `error` event of the request of call k
RequestError(k) ==
    /\ calls[k].request = "sent"
    /\ calls' = Settle([calls EXCEPT ![k] = [ClearTimeout(@) EXCEPT !.request = "closed"]],
                       k, "transport", NoBuffer)
    /\ UNCHANGED now
    /\ UNCHANGED <<runVars, rewriteVars, buildVars>>

\* the callback of setTimeout of call k; it leaves the request as it is
TimerFires(k) ==
    /\ calls[k].timer = "armed"
    /\ now >= calls[k].deadline
    /\ calls' = Settle([calls EXCEPT ![k].timer = "fired"], k, "timeout", NoBuffer)
    /\ UNCHANGED now
    /\ UNCHANGED <<runVars, rewriteVars, buildVars>>

\* a tick passes; a timer that is due fires before the next tick
Tick ==
    /\ calls # <<>>
    /\ now < MaxTime
    /\ \A k \in 1..Len(calls) : calls[k].timer = "armed" => now < calls[k].deadline
    /\ now' = now + 1
    /\ UNCHANGED calls
    /\ UNCHANGED <<runVars, rewriteVars, buildVars>>

\* SavedAs with the file name taken from the location that gave the bytes
SavedAsLastLocation(cs) == urlToFilename(cs[Len(cs)].url)

\* processImage: filename = urlToFilename(url), computed from the reference
\* it was called with, before downloadImage(url)
SavedAs(cs) == urlToFilename(cs[1].url)

\* processImage after `await downloadImage(url)` for the top-level call: the
\* buffer is written and the entry set, or the catch block sets the entry
ProcessImageAfterFetch ==
    /\ calls # <<>>
    /\ calls[1].promise # "pending"
    /\ ~MapHas(urlMapping, calls[1].url)
    /\ imageDir' = IF calls[1].outcome = "bytes"
                   THEN WriteFileSync(imageDir, SavedAs(calls), calls[1].value)
                   ELSE imageDir
    /\ urlMapping' = MappingAfterFetch(urlMapping, calls[1].url, calls[1].outcome)
    /\ UNCHANGED <<csvInput, csvOutput, run, pc, rowsRead, articles, allImageUrls,
                   updatedArticles, queue, active, completed, resolved, tasks, micro,
                   fetched, prev>>
    /\ UNCHANGED <<rewriteVars, fetchVars, buildVars>>

FetchNext ==
    \/ \E url \in Locations : DownloadImage(url)
    \/ \E k \in 1..Len(calls) : \E status \in StatusCodes : \E location \in Locations :
          Response(k, status, location)
    \/ \E k \in 1..Len(calls) : ResponseEnd(k)
    \/ \E k \in 1..Len(calls) : ResponseError(k)
    \/ \E k \in 1..Len(calls) : RequestError(k)
    \/ \E k \in 1..Len(calls) : TimerFires(k)
    \/ Tick
    \/ ProcessImageAfterFetch

FetchSpec == FetchInit /\ [][FetchNext]_vars

(***************************************************************************)
(* Properties of a run.                                                    *)
(***************************************************************************)
TaskIds == 1..Len(tasks)

\* the number of calls of downloadImage for url in this run
FetchCount(url) == Cardinality({k \in 1..Len(fetched) : fetched[k] = url})

\* the number of occurrences of p in s
Occurrences(s, p) == Cardinality({i \in 1..Len(s) : OccursAt(s, p, i)})

\* C1: at any time at most Concurrency references are being processed: the
\* counter `active`, and with it the number of calls of processImage that
\* have started and not settled, never exceeds the limit.
C1_ActiveAtMostLimit ==
    /\ active <= Concurrency
    /\ Cardinality({i \in TaskIds : tasks[i].st \in {"fetching", "settled"}}) <= Concurrency

\* the limit is reached while references are still queued
C1_Witness ==
    /\ active = Concurrency
    /\ queue # <<>>
    /\ Cardinality({i \in TaskIds : tasks[i].st = "fetching"}) = Concurrency

\* C2: when downloadAllImages resolves, the mapping has exactly one entry for
\* every reference of allImageUrls, whatever its outcome was.
C2_MappingCoversEveryReference ==
    resolved => /\ MapKeys(urlMapping) = Range(allImageUrls)
                /\ Len(urlMapping) = Len(allImageUrls)

\* C3: a reference whose download failed is mapped to itself; the failure
\* does not stop the run: every reference is processed, and the run ends
\* with the output dataset written.
C3_FailureIsAbsorbed ==
    /\ [](\A i \in TaskIds :
            tasks[i].outcome \in FetchFailures
              => /\ MapHas(urlMapping, tasks[i].url)
                 /\ MapGet(urlMapping, tasks[i].url) = tasks[i].url)
    /\ []((pc = "done" /\ FailedUrls # {})
            => /\ queue = <<>>
               /\ \A u \in Range(allImageUrls) :
                     \E i \in TaskIds : tasks[i].url = u /\ tasks[i].st = "done"
               /\ csvOutput = CsvContent(updatedArticles))
    /\ ((FailedUrls # {}) ~> (pc = "done" /\ FailedUrls # {}))

\* a download failed, a reference started after it was saved, the run ended
C3_Witness ==
    /\ pc = "done"
    /\ run = 1
    /\ csvOutput # NoOutput
    /\ \E i, j \in TaskIds :
          /\ i < j
          /\ tasks[i].outcome = "timeout"
          /\ tasks[j].outcome = "saved"

\* C4: a reference whose file was in the image directory when it was
\* processed is never handed to downloadImage in this run, and is mapped to
\* /images/<its file name>.
C4_ExistingFileIsNotFetched ==
    \A i \in TaskIds :
       tasks[i].hadFile
         => /\ FetchCount(tasks[i].url) = 0
            /\ MapHas(urlMapping, tasks[i].url)
            /\ MapGet(urlMapping, tasks[i].url) = LocalPathOf(urlToFilename(tasks[i].url))

\* a reference found its file, and the run has ended
C4_Witness ==
    /\ pc = "done"
    /\ \E i \in TaskIds : tasks[i].hadFile /\ tasks[i].url = UA /\ tasks[i].st = "done"

\* C5: in one run a reference is handed to downloadImage at most once, and is
\* the reference of at most one call of processImage, however many records
\* and fields hold it.
C5_FetchedAtMostOnce ==
    \A u \in Urls :
       /\ FetchCount(u) <= 1
       /\ Cardinality({i \in TaskIds : tasks[i].url = u}) <= 1

\* the reference three fields share was downloaded once, failed, and the run
\* ended without another attempt
C5_Witness ==
    /\ pc = "done"
    /\ csvInput = DatasetShared
    /\ FetchCount(UA) = 1
    /\ \E i \in TaskIds : tasks[i].url = UA /\ tasks[i].outcome \in FetchFailures

\* C6: when no download failed in the first run, the second run, on the same
\* input and the image directory as the first left it, calls downloadImage
\* for no reference and writes the output dataset the first run wrote.
C6_SecondRunSameOutput ==
    (run = 2 /\ pc = "done" /\ prev.failed = {})
       => /\ fetched = <<>>
          /\ csvOutput = prev.output

\* C7: a reference whose download failed occurs in every field of the
\* rewritten records as often as in the input: no occurrence is rewritten,
\* wholly or in part.
C7_FailedReferenceVerbatim ==
    pc = "done" =>
       \A u \in FailedUrls : \A a \in 1..Len(articles) : \A h \in Range(HEADERS) :
          Occurrences(updatedArticles[a][h], u) = Occurrences(articles[a][h], u)

\* the occurrences of the references mapped to a local path: <<index, entry>>
LocalOccurrences(s, m) ==
    {o \in (1..Len(s)) \X (1..Len(m)) :
        m[o[2]].value # m[o[2]].key /\ OccursAt(s, m[o[2]].key, o[1])}

\* no two occurrences of the set share a character
Disjoint(occ, m) ==
    \A o1, o2 \in occ :
       o1 # o2 => \/ o1[1] + Len(m[o1[2]].key) <= o2[1]
                  \/ o2[1] + Len(m[o2[2]].key) <= o1[1]

\* s with the occurrences of the set replaced by the values of their entries
Substitute(s, occ, m) ==
    LET F[from \in 1..(Len(s) + 1)] ==
          LET rest == {o \in occ : o[1] >= from}
          IN  IF rest = {} THEN SubSeq(s, from, Len(s))
              ELSE LET o == CHOOSE x \in rest : \A y \in rest : x[1] <= y[1]
                   IN  SubSeq(s, from, o[1] - 1) \o m[o[2]].value
                         \o F[o[1] + Len(m[o[2]].key)]
    IN  F[1]

\* new differs from old only where references mapped to a local path stood
ChangedOnlyInReferences(old, new, m) ==
    \E occ \in SUBSET LocalOccurrences(old, m) :
       Disjoint(occ, m) /\ Substitute(old, occ, m) = new

\* the line breaks of a CSV text that end a record: those outside quotes
CsvRecordBreaks(text) ==
    {i \in 1..Len(text) :
        /\ text[i] = "\n"
        /\ Cardinality({j \in 1..(i - 1) : text[j] = "\""}) % 2 = 0}

\* the records are the input's, in number, order, identity and field names,
\* and so is the output file's header line and number of records
SameShape ==
    /\ Len(updatedArticles) = Len(csvInput)
    /\ \A a \in 1..Len(csvInput) :
          /\ DOMAIN updatedArticles[a] = DOMAIN csvInput[a]
          /\ updatedArticles[a].id = csvInput[a].id
    /\ csvInput # <<>> =>
          /\ OccursAt(csvOutput,
                      <<"i", "d", ",", "b", "o", "d", "y", "_", "h", "t", "m", "l", ",",
                        "b", "o", "d", "y", "_", "m", "a", "r", "k", "d", "o", "w", "n", ",",
                        "m", "a", "i", "n", "_", "i", "m", "a", "g", "e", "\n">>, 1)
          /\ Cardinality(CsvRecordBreaks(csvOutput)) = Len(csvInput)

MappedEntries(m) == {k \in 1..Len(m) : m[k].value # m[k].key}

\* the reference operator: every occurrence in s of the key of an entry
\* mapped to a local path is replaced by the entry's value, every character
\* of the key standing for itself; the occurrences are those of s itself,
\* taken from the left, the longest one where several start at one place
ReplaceMapped(s, m) ==
    LET At(i) == {k \in MappedEntries(m) : OccursAt(s, m[k].key, i)}
        F[from \in 1..(Len(s) + 1)] ==
          LET hits == {i \in from..Len(s) : At(i) # {}}
          IN  IF hits = {} THEN SubSeq(s, from, Len(s))
              ELSE LET i == Min(hits)
                       k == CHOOSE x \in At(i) :
                               \A y \in At(i) : Len(m[x].key) >= Len(m[y].key)
                   IN  SubSeq(s, from, i - 1) \o m[k].value \o F[i + Len(m[k].key)]
    IN  F[1]

\* C8: what replaceImageUrls returns is what the reference operator gives:
\* every occurrence of every reference mapped to a local path is replaced by
\* that path, and all other text is left as it was.
C8_EqualsReferenceOperator ==
    result # NoResult => result = ReplaceMapped(content, entries)

(***************************************************************************)
(* Properties of one top-level call of downloadImage.                      *)
(***************************************************************************)
\* C10: the timer armed when the top-level call starts covers every redirect
\* hop: once its Timeout ticks have passed, the promise of the top-level
\* call is settled, whatever calls were made for redirects meanwhile.
C10_OneDeadlineForAllHops ==
    (calls # <<>> /\ now > calls[1].deadline) => calls[1].promise # "pending"

(***************************************************************************)
(* Properties of the files and of the ends of a run.                       *)
(***************************************************************************)
\* task i has written its file: processImage passed fs.writeFileSync
Wrote(i) == tasks[i].outcome = "saved"

\* C11: no two operations that are in flight at the same time write the same
\* file of the image directory, also when the file names of two distinct
\* references coincide.
C11_NoTwoInFlightWritersOfOneFile ==
    \A i, j \in TaskIds :
       (i \in tasks[j].peers /\ Wrote(i) /\ Wrote(j))
          => urlToFilename(tasks[i].url) # urlToFilename(tasks[j].url)


\* what the output dataset was when this run started
OutputAtStart == IF run = 1 THEN NoOutput ELSE prev.output

\* C12: the output dataset is written in one step, after the input has been
\* read to its end and every reference has its final outcome; until then,
\* and when reading fails and the run ends with exit code 1, the output
\* dataset is what it was before the run.
C12_OutputWrittenOnceAtTheEnd ==
    /\ pc # "done" => csvOutput = OutputAtStart
    /\ pc = "done" =>
          /\ rowsRead = Len(csvInput)
          /\ resolved /\ queue = <<>> /\ active = 0
          /\ \A u \in Range(allImageUrls) :
                \E i \in TaskIds : /\ tasks[i].url = u
                                   /\ tasks[i].st = "done"
                                   /\ tasks[i].outcome # "none"
          /\ csvOutput = IF articles = <<>> THEN OutputAtStart
                         ELSE CsvContent(updatedArticles)

\* the second run fails to read after its first row; the output dataset of
\* the first run is still there, whole
C12_Witness ==
    /\ pc = "exit1"
    /\ run = 2
    /\ rowsRead = 1
    /\ csvOutput = prev.output
    /\ prev.output # NoOutput

\* C13: no step of a run writes the input dataset: whatever the outcomes of
\* the downloads, the file of CSV_INPUT stays what it was; what a run writes
\* are files of the image directory and the output dataset.
C13_InputNeverWritten == [][csvInput' = csvInput]_vars

\* a run has written image files and the output dataset, a download having
\* failed
C13_Witness ==
    /\ pc = "done"
    /\ csvInput = DatasetShared
    /\ csvOutput # NoOutput
    /\ imageDir[urlToFilename(UA)] = BytesOf(UA)
    /\ FailedUrls # {}

\* C14: the build loads the articles from the migrated dataset when that
\* file exists, and from the original dataset only when it does not.
C14_BuildReadsMigratedDataset ==
    built # NoBuild =>
       built.file = IF built.migrated THEN CSV_OUTPUT ELSE CSV_INPUT

(***************************************************************************)
(* Properties of extractImageUrls.                                         *)
(***************************************************************************)
\* C15: extractImageUrls returns each URL at most once, even when the URL is
\* matched by more than one of the three syntaxes, and on the text
\* <img src="http://x/a.png"> and ![b](http://x/b.png) and ![c(http://x/c.png)
\* it returns exactly http://x/a.png, http://x/b.png and http://x/c.png.
C15_EachUrlOnceAndExample ==
    result # NoResult =>
       /\ \A i, j \in DOMAIN result : i # j => result[i] # result[j]
       /\ content = ExampleText =>
             /\ Len(result) = 3
             /\ Range(result) = {UA, XB, XC}

\* the example has returned; its http://x/b.png is matched by the second and
\* by the third expression
C15_Witness ==
    /\ content = ExampleText
    /\ result = <<UA, XB, XC>>
    /\ XB \in Range(MdMatches(content))
    /\ XB \in Range(MalformedMatches(content))

(***************************************************************************)
(* Properties of the scheduling of downloadAllImages.                      *)
(***************************************************************************)
\* reference u has been dequeued and processImage has returned for it
Processed(u) == \E i \in TaskIds : tasks[i].url = u /\ tasks[i].st = "done"

\* C16: when every started fetch settles and the event loop is fair, every
\* reference of the input set is eventually dequeued and processed and
\* downloadAllImages eventually resolves; for an empty set of references it
\* resolves without starting a fetch.
C16_EveryReferenceProcessedAndResolved ==
    /\ (pc = "download") ~> (resolved /\ \A u \in Range(allImageUrls) : Processed(u))
    /\ [](pc = "download" /\ allImageUrls = <<>> => resolved /\ fetched = <<>>)

\* downloadAllImages has resolved after more references than the limit, one
\* of them fetched, all of them processed
C16_Witness ==
    /\ pc = "download" /\ resolved
    /\ Len(allImageUrls) > Concurrency
    /\ fetched # <<>>
    /\ \A u \in Range(allImageUrls) : Processed(u)

\* C17: downloadAllImages resolves only in a state where the in-flight count
\* is zero and the queue is empty: while it is resolved no reference is
\* queued and no started processImage is without its callback.
C17_ResolvedOnlyWhenIdle ==
    resolved =>
       /\ active = 0
       /\ queue = <<>>
       /\ \A i \in TaskIds : tasks[i].st = "done"

\* the promise has just been resolved (migrateImages has not resumed yet),
\* after the last of several callbacks
C17_Witness ==
    /\ resolved /\ pc = "download"
    /\ micro # <<>> /\ Head(micro).kind = "main"
    /\ completed > Concurrency
    /\ active = 0 /\ queue = <<>>

(***************************************************************************)
(* Properties of the mapping.                                              *)
(***************************************************************************)
\* task i has called urlMapping.set(url, ...): after finding the file, after
\* saving it, or in the catch block
SetsEntry(i) == tasks[i].outcome \in {"exists", "saved"} \cup FetchFailures

\* C18: over a whole run each key of the mapping is written at most once: at
\* most one processImage calls urlMapping.set for a reference, and no step
\* of the run changes or removes an entry that is set.
C18_EachKeyWrittenOnce ==
    /\ [](\A i, j \in TaskIds :
             (SetsEntry(i) /\ SetsEntry(j) /\ tasks[i].url = tasks[j].url) => i = j)
    /\ [][run' = run =>
            \A k \in MapKeys(urlMapping) :
               MapHas(urlMapping', k) /\ MapGet(urlMapping', k) = MapGet(urlMapping, k)]_vars

\* two operations that were in flight together have both set their entry
C18_Witness ==
    /\ pc = "download"
    /\ \E i, j \in TaskIds :
          /\ i \in tasks[j].peers
          /\ SetsEntry(i) /\ SetsEntry(j)
          /\ tasks[i].outcome = "saved" /\ tasks[j].outcome \in FetchFailures
          /\ MapHas(urlMapping, tasks[i].url) /\ MapHas(urlMapping, tasks[j].url)

(***************************************************************************)
(* Properties of the redirects of downloadImage.                           *)
(***************************************************************************)
CallIds == 1..Len(calls)

\* the call made for the redirect that call k was answered with
Hop(k) == {j \in CallIds : calls[j].parent = k /\ calls[j].url = calls[k].answer.location}

\* C19: every response with a 3xx status and a Location header (301, 302,
\* 303, 307, 308) is followed by a request against the new location, and the
\* call, unless its timer had fired before, succeeds when the call for the
\* new location gives the bytes.
C19_Every3xxIsFollowed ==
    \A k \in CallIds :
       calls[k].answer.status \in RedirectCodes =>
          /\ Hop(k) # {}
          /\ \A j \in Hop(k) :
                (calls[j].outcome = "bytes" /\ calls[k].timer # "fired")
                   => calls[k].outcome = "bytes"

\* C20: a top-level call ends after a bounded number of redirect hops, also
\* when the redirects form a cycle: it gives up before the servers do, so it
\* follows fewer than the MaxHops redirects the servers are ready to answer
\* with.
C20_BoundedRedirectHops ==
    calls # <<>> => Len(calls) - 1 < MaxHops

(***************************************************************************)
(* Properties of a run that is aborted.                                    *)
(***************************************************************************)
\* file f of the image directory holds the complete bytes of a reference
\* whose file it is
Complete(f) == \E u \in Urls : UrlParses(u) /\ urlToFilename(u) = f /\ imageDir[f] = BytesOf(u)

\* C21: whenever a run is aborted, between two steps or during a file write,
\* every file then present in the image directory holds the complete bytes
\* of its reference, so that a following run that finds the file maps the
\* reference to a valid asset.
C21_FilesCompleteAfterAbort ==
    /\ \A f \in FileNames : imageDir[f] # NoFile => Complete(f)
    /\ \A i \in TaskIds :
          tasks[i].outcome = "exists" => Complete(urlToFilename(tasks[i].url))

(***************************************************************************)
(* Properties of the serialization of the output dataset.                  *)
(***************************************************************************)
\* value with each double quote doubled
RECURSIVE QuotesDoubled(_)
QuotesDoubled(value) ==
    IF value = <<>> THEN <<>>
    ELSE (IF Head(value) = "\"" THEN <<"\"", "\"">> ELSE <<Head(value)>>)
            \o QuotesDoubled(Tail(value))

\* value holds the delimiter, a double quote, a line feed or a carriage return
NeedsQuotes(value) == \E i \in DOMAIN value : value[i] \in {",", "\"", "\n", "\r"}

\* C22: a field value that holds a comma, a double quote or a line break
\* (line feed or carriage return) is written between double quotes with each
\* inner double quote doubled; every other value is written as it is.
C22_QuotedWhenSensitive ==
    result # NoResult =>
       result = IF NeedsQuotes(content)
                THEN <<"\"">> \o QuotesDoubled(content) \o <<"\"">>
                ELSE content

(***************************************************************************)
(* Properties of the counters of downloadAllImages.                        *)
(***************************************************************************)
\* C23: while downloadAllImages runs, the in-flight count, the length of the
\* queue and the completed count add up to the number of input references,
\* and the in-flight count is never negative; when it resolves, the
\* completed count is the number of input references.
C23_CountersAddUp ==
    pc = "download" =>
       /\ active + Len(queue) + completed = Len(allImageUrls)
       /\ active >= 0
       /\ resolved => completed = Len(allImageUrls)

\* two references are in flight, one is queued and one is completed
C23_Witness ==
    /\ pc = "download"
    /\ active = Concurrency /\ queue # <<>> /\ completed > 0
    /\ ~resolved

(***************************************************************************)
(* Properties that tie the mapping to the image directory.                 *)
(***************************************************************************)
\* C24: each entry of the mapping whose value is a local path
\* /images/<filename> names a file that exists in the image directory: after
\* a download the bytes are written before the entry is set.
C24_LocalPathHasFile ==
    \A i \in DOMAIN urlMapping : \A f \in FileNames :
       urlMapping[i].value = LocalPathOf(f) => imageDir[f] # NoFile

\* a reference whose file was not there has been downloaded, saved and set
C24_Witness ==
    \E i \in TaskIds :
       /\ tasks[i].outcome = "saved"
       /\ ~tasks[i].hadFile
       /\ MapHas(urlMapping, tasks[i].url)
       /\ MapGet(urlMapping, tasks[i].url) = LocalPathOf(urlToFilename(tasks[i].url))
       /\ imageDir[urlToFilename(tasks[i].url)] = BytesOf(tasks[i].url)

(***************************************************************************)
(* Properties of a processImage that throws.                               *)
(***************************************************************************)
\* processImage threw before its try block for task i: urlToFilename could
\* not parse the reference
Threw(i) == tasks[i].outcome = "threw"

\* C25: when processImage throws outside its try block (the reference does
\* not parse, so no file name can be derived), the in-flight count is
\* decremented once and the completed count incremented once for it, as for
\* every other task, and the references still queued are processed to the
\* end.
C25_ThrowIsCountedOnce ==
    /\ []((pc = "download" /\ \E i \in TaskIds : Threw(i)) =>
             /\ completed = Cardinality({i \in TaskIds : tasks[i].st = "done"})
             /\ active = Cardinality({i \in TaskIds : tasks[i].st # "done"}))
    /\ (pc = "download" /\ \E i \in TaskIds : Threw(i))
          ~> (resolved /\ \A u \in Range(allImageUrls) : Processed(u))

\* a reference that was queued behind one that threw has been processed
C25_Witness ==
    /\ pc = "download" /\ resolved
    /\ \E i, j \in TaskIds :
          /\ i < j
          /\ Threw(i) /\ tasks[i].st = "done"
          /\ tasks[j].st = "done" /\ tasks[j].outcome = "saved"

(***************************************************************************)
(* Properties of the requests that are outstanding.                        *)
(***************************************************************************)
\* the tasks whose request is outstanding: sent and not over, whether or not
\* the download has been reported as timed out
Outstanding == {i \in TaskIds : tasks[i].request = "open"}

\* C26: the number of requests that are outstanding never exceeds the
\* concurrency limit, also counting the requests of downloads that were
\* reported as timed out: a request is over by the time its slot is freed.
C26_OutstandingAtMostLimit ==
    Cardinality(Outstanding) <= Concurrency

(***************************************************************************)
(* Properties of what is stored after a redirect.                          *)
(***************************************************************************)
\* the call whose response gave the bytes the top-level call resolved with
GaveBytes == {k \in CallIds : calls[k].outcome = "bytes" /\ calls[k].request = "closed"}

\* C27: when the fetch of a reference is answered through one or more
\* redirects, the bytes of the final location are stored under the file name
\* derived from the reference itself, no file is stored under another name,
\* and the reference is the only key of the mapping that is written.
C27_StoredUnderTheReference ==
    (calls # <<>> /\ calls[1].outcome = "bytes" /\ Len(calls) > 1 /\ urlMapping # <<>>) =>
       /\ \A k \in GaveBytes : imageDir[urlToFilename(calls[1].url)] = BytesOf(calls[k].url)
       /\ GaveBytes # {}
       /\ \A f \in FileNames : f # urlToFilename(calls[1].url) => imageDir[f] = NoFile
       /\ MapKeys(urlMapping) = {calls[1].url}
       /\ MapGet(urlMapping, calls[1].url) = LocalPathOf(urlToFilename(calls[1].url))

\* http://x/a.png was redirected to http://x/c, whose bytes are stored in
\* the file of http://x/a.png
C27_Witness ==
    /\ Len(calls) = 2
    /\ calls[1].url = UA /\ calls[2].url = UC
    /\ calls[1].outcome = "bytes"
    /\ imageDir[urlToFilename(UA)] = BytesOf(UC)
    /\ imageDir[urlToFilename(UC)] = NoFile
    /\ MapKeys(urlMapping) = {UA}

(***************************************************************************)
(* Properties of a run on an input without records.                        *)
(***************************************************************************)
\* C28: when the input dataset holds no record, the run starts no fetch,
\* writes no output dataset file at all, and, once the input has been read,
\* ends normally: it reaches its end and never the fatal exit.
C28_EmptyInputEndsQuietly ==
    /\ [](csvInput = DatasetEmpty =>
             /\ fetched = <<>> /\ tasks = <<>>
             /\ csvOutput = NoOutput)
    /\ [][(csvInput = DatasetEmpty /\ pc = "download") => pc' # "exit1"]_vars
    /\ (csvInput = DatasetEmpty /\ pc = "download") ~> (pc = "done" /\ csvOutput = NoOutput)

\* the second run on the empty input has ended, and there is no output file
C28_Witness ==
    /\ csvInput = DatasetEmpty
    /\ run = 2 /\ pc = "done"
    /\ rowsRead = 0 /\ resolved
    /\ fetched = <<>> /\ csvOutput = NoOutput

====
